---- MODULE Spec2Model ----
(***************************************************************************)
(* Garment intake, staging and catalog lifecycle of wardrobe_backend.       *)
(*                                                                         *)
(* Text is modelled as a sequence of tokens: a word ("topwear"), the        *)
(* separator "_" or a decimal digit ("0".."9"), so that formatting an id   *)
(* (f-string, zfill) and parsing one (startswith, split, int) are computed  *)
(* as the code computes them.  Image bytes are opaque atoms.                *)
(***************************************************************************)
EXTENDS Integers, Sequences, FiniteSets, Bags, TLC

\* ------------------------------------------------------------------ bounds
\* how many /extract-cloth requests are issued in a behaviour
MaxIntakes == 2

\* how many items the list handed to generate_smart_id holds at most
MaxItems == 2

\* how many requests work on temporary_inventory.json at the same time
MaxWriters == 2

\* pixels of an image handed to the color analyzer alone
MaxPixels == 3

\* how many /extract-cloth requests share the worker pool
MaxRequests == 3

\* how many confirmations rewrite wardrobe.json in a behaviour
MaxConfirms == 3

\* ------------------------------------------------------------- text helpers
Digits == <<"0", "1", "2", "3", "4", "5", "6", "7", "8", "9">>

DigitSet == {Digits[i] : i \in 1..10}

US == <<"_">>

\* Python None, distinct from every string the program stores
None == "<None>"

\* the value of one digit token
DigitVal(d) == (CHOOSE i \in 1..10 : Digits[i] = d) - 1

\* str(n) for n >= 0
RECURSIVE StrNat(_)
StrNat(n) == IF n < 10 THEN <<Digits[n + 1]>>
             ELSE StrNat(n \div 10) \o <<Digits[(n % 10) + 1]>>

\* s.zfill(width)
RECURSIVE zfill(_, _)
zfill(s, width) == IF Len(s) >= width THEN s ELSE zfill(<<"0">> \o s, width)

\* s.startswith(p)
startswith(s, p) == /\ Len(s) >= Len(p)
                    /\ SubSeq(s, 1, Len(p)) = p

\* s.split("_")[-1]: the tokens after the last separator
RECURSIVE LastPart(_)
LastPart(s) == IF s = <<>> THEN <<>>
               ELSE IF s[Len(s)] = "_" THEN <<>>
               ELSE LastPart(SubSeq(s, 1, Len(s) - 1)) \o <<s[Len(s)]>>

\* len(s.split("_"))
NumParts(s) == Cardinality({i \in 1..Len(s) : s[i] = "_"}) + 1

\* the digits of a numeral, after its sign token ("+" or "-") if it has one
Unsigned(s) == IF s # <<>> /\ s[1] \in {"+", "-"} THEN Tail(s) ELSE s

\* whether int(s) succeeds (otherwise it raises ValueError)
IsInt(s) == /\ Unsigned(s) # <<>>
            /\ \A i \in 1..Len(Unsigned(s)) : Unsigned(s)[i] \in DigitSet

\* the value of a digit string
RECURSIVE NatOf(_)
NatOf(s) == IF s = <<>> THEN 0
            ELSE 10 * NatOf(SubSeq(s, 1, Len(s) - 1)) + DigitVal(s[Len(s)])

\* int(s) for a numeral
IntOf(s) == IF s # <<>> /\ s[1] = "-" THEN 0 - NatOf(Unsigned(s)) ELSE NatOf(Unsigned(s))

\* the largest element of a finite non-empty set of integers
MaxOf(S) == CHOOSE m \in S : \A x \in S : x <= m

\* d.get(k, default)
Get(d, k, default) == IF k \in DOMAIN d THEN d[k] ELSE default

\* ------------------------------------------------------ identifier allocator
\* the allocator with category and type swapped in the prefix
generate_smart_id_swapped(category, item_type, existing_items) ==
    LET prefix == item_type \o US \o category
        seqs == {IntOf(LastPart(existing_items[k].id)) :
                   k \in {j \in 1..Len(existing_items) :
                            /\ startswith(existing_items[j].id, prefix \o US)
                            /\ IsInt(LastPart(existing_items[j].id))}}
    IN prefix \o US \o zfill(StrNat(MaxOf(seqs \cup {0}) + 1), 2)

\* the allocator counting the ids of the prefix instead of reading their numbers
generate_smart_id_count(category, item_type, existing_items) ==
    LET prefix == category \o US \o item_type
        matching == {j \in 1..Len(existing_items) :
                       startswith(Get(existing_items[j], "id", <<>>), prefix \o US)}
    IN prefix \o US \o zfill(StrNat(Cardinality(matching) + 1), 2)

\* the allocator returning the largest number in use instead of the next one
generate_smart_id_same(category, item_type, existing_items) ==
    LET prefix == category \o US \o item_type
        matching == {Get(existing_items[j], "id", <<>>) : j \in 1..Len(existing_items)}
        seqs == {IntOf(LastPart(x)) :
                   x \in {y \in matching : /\ startswith(y, prefix \o US)
                                            /\ NumParts(y) >= 3
                                            /\ IsInt(LastPart(y))}}
    IN prefix \o US \o zfill(StrNat(MaxOf(seqs \cup {0})), 2)

generate_smart_id(category, item_type, existing_items) ==
    LET prefix == category \o US \o item_type
        existing_ids == {Get(existing_items[k], "id", <<>>) :
                           k \in {j \in 1..Len(existing_items) :
                                    startswith(Get(existing_items[j], "id", <<>>),
                                               prefix \o US)}}
        \* int(parts[-1]) of the ids it does not raise ValueError for
        seqs == {IntOf(LastPart(item_id)) :
                   item_id \in {x \in existing_ids :
                                  NumParts(x) >= 3 /\ IsInt(LastPart(x))}}
        \* max_seq starts at 0
        max_seq == MaxOf(seqs \cup {0})
        next_seq == max_seq + 1
    IN prefix \o US \o zfill(StrNat(next_seq), 2)

\* ------------------------------------------------------------ color analyzer
Abs(x) == IF x < 0 THEN -x ELSE x

RECURSIVE SumChannel(_, _)
SumChannel(pixels, c) == IF pixels = <<>> THEN 0
                         ELSE pixels[1][c] + SumChannel(Tail(pixels), c)

\* the mean taken over every pixel, transparent ones included
extract_dominant_rgb_all(image) ==
    IF Len(SelectSeq(image, LAMBDA px : px[4] > 0)) = 0 THEN <<128, 128, 128>>
    ELSE [c \in 1..3 |-> SumChannel(image, c) \div Len(image)]

\* an image is its sequence of RGBA pixels
extract_dominant_rgb(image) ==
    LET rgb_pixels == SelectSeq(image, LAMBDA px : px[4] > 0)
    IN IF Len(rgb_pixels) = 0 THEN <<128, 128, 128>>
       ELSE [c \in 1..3 |-> SumChannel(rgb_pixels, c) \div Len(rgb_pixels)]

\* the group mapper deciding white and black by the mean of the channels
map_color_group_mean(rgb) ==
    LET r == rgb[1]
        g == rgb[2]
        b == rgb[3]
    IN IF Abs(r - g) < 20 /\ Abs(g - b) < 20
       THEN (IF r + g + b >= 600 THEN "white"
             ELSE IF r + g + b <= 240 THEN "black" ELSE "neutral")
       ELSE IF r > g + 25 /\ r > b + 25 THEN "red"
       ELSE IF g > r + 25 /\ g > b + 25 THEN "green"
       ELSE IF b > r + 25 /\ b > g + 25 THEN "blue"
       ELSE "neutral"

map_color_group(rgb) ==
    LET r == rgb[1]
        g == rgb[2]
        b == rgb[3]
    IN IF Abs(r - g) < 20 /\ Abs(g - b) < 20
       THEN (IF r > 200 THEN "white" ELSE IF r < 80 THEN "black" ELSE "neutral")
       ELSE IF r > g + 25 /\ r > b + 25 THEN "red"
       ELSE IF g > r + 25 /\ g > b + 25 THEN "green"
       ELSE IF b > r + 25 /\ b > g + 25 THEN "blue"
       ELSE "neutral"

\* the name mapper testing all three pairwise differences
map_color_name_pairwise(rgb) ==
    LET r == rgb[1]
        g == rgb[2]
        b == rgb[3]
    IN IF Abs(r - g) < 20 /\ Abs(g - b) < 20 /\ Abs(r - b) < 20
       THEN (IF r > 200 THEN "off white" ELSE IF r < 80 THEN "black" ELSE "beige")
       ELSE IF b > r + 25 THEN "blue"
       ELSE IF r > g + 25 THEN "red"
       ELSE IF g > r + 25 THEN "green"
       ELSE "neutral"

\* the name mapper testing red before blue
map_color_name_redfirst(rgb) ==
    LET r == rgb[1]
        g == rgb[2]
        b == rgb[3]
    IN IF Abs(r - g) < 20 /\ Abs(g - b) < 20
       THEN (IF r > 200 THEN "off white" ELSE IF r < 80 THEN "black" ELSE "beige")
       ELSE IF r > g + 25 THEN "red"
       ELSE IF b > r + 25 THEN "blue"
       ELSE IF g > r + 25 THEN "green"
       ELSE "neutral"

map_color_name(rgb) ==
    LET r == rgb[1]
        g == rgb[2]
        b == rgb[3]
    IN IF Abs(r - g) < 20 /\ Abs(g - b) < 20
       THEN (IF r > 200 THEN "off white" ELSE IF r < 80 THEN "black" ELSE "beige")
       ELSE IF b > r + 25 THEN "blue"
       ELSE IF r > g + 25 THEN "red"
       ELSE IF g > r + 25 THEN "green"
       ELSE "neutral"

\* ------------------------------------------------------------ type classifier
\* a label is its sequence of words; "t-shirt" is the two tokens "t-", "shirt"
LABELS == << <<"a", "photo", "of", "a", "shirt">>,
             <<"a", "photo", "of", "a", "t-", "shirt">>,
             <<"a", "photo", "of", "a", "pants">>,
             <<"a", "photo", "of", "a", "shorts">>,
             <<"a", "photo", "of", "a", "shoes">>,
             <<"a", "photo", "of", "a", "accessories">> >>

\* validation thresholds; a score is a percentage (0.50 is 50)
PRIMARY_CONFIDENCE_THRESHOLD == 50

SECONDARY_CONFIDENCE_THRESHOLD == 30

MAX_CONFIDENCE_DIFF == 20

\* scored.sort(key=score, reverse=True) over the label indices left: the sort is
\* stable, so of two labels with the same score the one listed first comes first
RECURSIVE SortedByScore(_, _)
SortedByScore(probs, left) ==
    IF left = {} THEN <<>>
    ELSE LET first == CHOOSE i \in left :
                         \A j \in left : \/ probs[i] > probs[j]
                                          \/ (probs[i] = probs[j] /\ i <= j)
         IN <<first>> \o SortedByScore(probs, left \ {first})

\* the classifier refusing only when the two scores are less than 20 apart
classify_type_strict(scorer) ==
    IF ~scorer.ok
    THEN [ok |-> FALSE, error |-> "ValueError",
          message |-> [text |-> "Failed to classify image type:", cause |-> scorer.error]]
    ELSE LET scored == SortedByScore(scorer.probs, DOMAIN scorer.probs)
             top_score == scorer.probs[scored[1]]
             second_score == scorer.probs[scored[2]]
         IN IF /\ top_score >= PRIMARY_CONFIDENCE_THRESHOLD
               /\ second_score >= SECONDARY_CONFIDENCE_THRESHOLD
               /\ Abs(top_score - second_score) < MAX_CONFIDENCE_DIFF
            THEN [ok |-> FALSE, error |-> "ValueError",
                  message |-> [text |-> "Multi-garment image detected.",
                               Top |-> [label |-> LABELS[scored[1]], score |-> top_score],
                               Second |-> [label |-> LABELS[scored[2]],
                                           score |-> second_score]]]
            ELSE [ok |-> TRUE, label |-> LABELS[scored[1]]]

\* classify_type, given what the scorer (CLIP) did: the probabilities of the
\* six labels, or an exception; it returns the top label or raises ValueError
classify_type(scorer) ==
    IF ~scorer.ok
    THEN [ok |-> FALSE, error |-> "ValueError",
          message |-> [text |-> "Failed to classify image type:", cause |-> scorer.error]]
    ELSE LET scored == SortedByScore(scorer.probs, DOMAIN scorer.probs)
             top_score == scorer.probs[scored[1]]
             second_score == scorer.probs[scored[2]]
         IN IF /\ top_score >= PRIMARY_CONFIDENCE_THRESHOLD
               /\ second_score >= SECONDARY_CONFIDENCE_THRESHOLD
               /\ Abs(top_score - second_score) <= MAX_CONFIDENCE_DIFF
            THEN [ok |-> FALSE, error |-> "ValueError",
                  message |-> [text |-> "Multi-garment image detected.",
                               Top |-> [label |-> LABELS[scored[1]], score |-> top_score],
                               Second |-> [label |-> LABELS[scored[2]],
                                           score |-> second_score]]]
            ELSE [ok |-> TRUE, label |-> LABELS[scored[1]]]

\* sub in s (substring test)
Contains(s, sub) ==
    \E i \in 1..(Len(s) - Len(sub) + 1) : SubSeq(s, i, i + Len(sub) - 1) = sub

map_inventory_type(label) ==
    IF Contains(label, <<"shirt">>) /\ ~Contains(label, <<"t-", "shirt">>)
    THEN << <<"topwear">>, <<"shirt">> >>
    ELSE IF Contains(label, <<"t-", "shirt">>)
    THEN << <<"topwear">>, <<"tshirt">> >>
    ELSE IF Contains(label, <<"pants">>)
    THEN << <<"bottomwear">>, <<"pants">> >>
    ELSE IF Contains(label, <<"shorts">>)
    THEN << <<"bottomwear">>, <<"shorts">> >>
    ELSE IF Contains(label, <<"shoes">>)
    THEN << <<"footwear">>, <<"shoes">> >>
    ELSE IF Contains(label, <<"accessories">>)
    THEN << <<"accessories">>, <<"accessories">> >>
    ELSE << <<"unknown">>, <<"unknown">> >>

\* -------------------------------------------------------------- preprocessor
\* A decoded image is its sequence of pixel rows, top row first.  What the
\* models do is an input: face is what mediapipe does ("none": no detection,
\* "raises", or "found" with y = int((bbox.ymin + bbox.height) * h)), and
\* segmenter is what rembg does ("ok" or "raises").
Min(a, b) == IF a < b THEN a ELSE b

Max(a, b) == IF a > b THEN a ELSE b

\* crop_below_face: the rows below the face, the image itself without a
\* detection, or an exception
crop_below_face(image, face) ==
    IF face.kind = "raises" THEN [ok |-> FALSE, error |-> "RuntimeError"]
    ELSE IF face.kind = "none" THEN [ok |-> TRUE, image |-> image]
    ELSE LET h == Len(image)
             y_min == Max(0, Min(face.y, h))
         IN [ok |-> TRUE, image |-> SubSeq(image, y_min + 1, h)]

\* rembg.remove: every row with its background made transparent
remove(image) == [i \in 1..Len(image) |-> <<"cut", image[i]>>]

\* output.save(buffer, format="PNG")
EncodePng(output) == [format |-> "PNG", mode |-> "RGBA", rows |-> output]

\* an extract_cloth that lets the exception of the face step through
extract_cloth_strict(upload, face, segmenter) ==
    IF ~upload.ok THEN [ok |-> FALSE, error |-> "ValueError"]
    ELSE LET cropped == crop_below_face(upload.image, face)
         IN IF ~cropped.ok \/ segmenter = "raises"
            THEN [ok |-> FALSE, error |-> "ValueError"]
            ELSE [ok |-> TRUE, png |-> EncodePng(remove(cropped.image))]

\* extract_cloth: upload is what Image.open does with the bytes; the PNG bytes
\* are returned, or ValueError is raised
extract_cloth(upload, face, segmenter) ==
    IF ~upload.ok THEN [ok |-> FALSE, error |-> "ValueError"]
    ELSE LET cropped == crop_below_face(upload.image, face)
             image == IF cropped.ok THEN cropped.image ELSE upload.image
         IN IF segmenter = "raises" THEN [ok |-> FALSE, error |-> "ValueError"]
            ELSE [ok |-> TRUE, png |-> EncodePng(remove(image))]

\* --------------------------------------------------------------- dictionaries
\* d.update(u)
DictUpdate(d, u) ==
    [k \in DOMAIN d \cup DOMAIN u |-> IF k \in DOMAIN u THEN u[k] ELSE d[k]]

\* d[k] = v
Put(d, k, v) == [x \in DOMAIN d \cup {k} |-> IF x = k THEN v ELSE d[x]]

\* del d[k]
Del(d, k) == [x \in DOMAIN d \ {k} |-> d[x]]

\* base64: the encoded text of some bytes is a value of another kind
b64encode(bytes) == <<"b64", bytes>>

b64decode(text) == text[2]

\* -------------------------------------------------------------------- inputs
\* processed PNGs the preprocessor can return, each a sequence of RGBA pixels
PngRed == << <<200, 20, 20, 255>>, <<221, 31, 41, 255>>, <<0, 0, 0, 0>> >>

PngBlank == << <<0, 0, 0, 0>> >>

Images == {PngRed, PngBlank}

\* the labels the scorer ranks first for the modelled uploads
IntakeLabels == {LABELS[1]}

\* temp ids a client can name: every one that can be issued, and one more
TempIds == 1..(MaxIntakes + 1)

\* catalog ids a client can name
ItemIds == {generate_smart_id(map_inventory_type(l)[1], map_inventory_type(l)[2], <<>>) :
              l \in IntakeLabels}
           \cup {<<"topwear", "_", "shirt", "_", "0", "2">>, <<"hacked">>}

\* JSON bodies sent to PUT /temporary-inventory/{temp_id}
EditBodies == { [id |-> <<"hacked">>, type |-> <<"pants">>,
                 color |-> [name |-> "red", group |-> "red"]],
                [id |-> <<"hacked">>] }

\* JSON bodies sent to PUT /api/inventory/{item_id}
UpdateBodies == { [id |-> <<"hacked">>, image_path |-> <<"hacked">>,
                   category |-> <<"bottomwear">>, color_name |-> "navy"] }

\* ------------------------------------------------------------- image storage
TempPath(temp_id) == <<"images", "temp", temp_id>>

PermanentPath(item_id) == <<"images", "permanent", item_id>>

\* a NULL path column
NoPath == <<>>

\* --------------------------------------------------------------------- state
VARIABLES
    wardrobe,     \* inventory/wardrobe.json: list of inventory items
    staging,      \* inventory/temporary_inventory.json: temp_id -> staged record
    tempImages,   \* images/temp/{temp_id}.png: temp_id -> bytes
    permImages,   \* images/permanent/{id}.png: id -> bytes
    catalog,      \* table inventory_items: set of rows
    intake,       \* the /extract-cloth requests in progress: bag of [pc, png, item]
    started,      \* how many /extract-cloth requests have arrived
    issued,       \* how many temp ids uuid4 has produced
    job,          \* a catalog request in progress, step by step
    resolved,     \* history: temp ids whose confirmation or discard succeeded
    allocated,    \* history: [id, category, type] of every allocation
    call,         \* a function of the services being called on its own: [fn, args, ret]
    file,         \* temporary_inventory.json as bytes on disk: [exists, bytes]
    writers,      \* the staging requests working on that file, step by step
    executor,     \* the ThreadPoolExecutor: [work_queue, workers]
    handlers,     \* the extract_cloth_api coroutines sharing it: request -> [pc]
    wardrobe_json, \* wardrobe.json as bytes on disk: [exists, bytes]
    threads       \* a confirmation on the dispatcher, allocations in the workers

vars == <<wardrobe, staging, tempImages, permImages, catalog, intake, started,
          issued, job, resolved, allocated, call, file, writers, executor, handlers,
          wardrobe_json, threads>>

\* what the request handlers leave alone
vars_pool == <<executor, handlers>>

vars_alloc == <<wardrobe_json, threads>>

aux == <<call, file, writers, vars_pool, vars_alloc>>

stores == <<wardrobe, staging, tempImages, permImages, catalog>>

IdleJob == [pc |-> "idle"]

IdleCall == [fn |-> "idle"]

\* temporary_inventory.json does not exist yet
NoFile == [exists |-> FALSE, bytes |-> <<>>]

\* the requests that work on temporary_inventory.json at the same time, each
\* on the staged record of its own temp_id
Writers == 1..MaxWriters

\* a request slot at rest; phase is where the record of its temp_id stands
\* ("new", "staged", "edited" or "gone") by the requests that have returned
IdleWriter == [pc |-> "idle", phase |-> "new"]

\* executor = ThreadPoolExecutor(max_workers=2)
max_workers == 2

Workers == 1..max_workers

Requests == 1..MaxRequests

\* a worker thread waiting on the work queue
NoTask == [req |-> 0, fn |-> "none"]

Init ==
    /\ wardrobe = <<>>
    /\ staging = <<>>
    /\ tempImages = <<>>
    /\ permImages = <<>>
    /\ catalog = {}
    /\ intake = EmptyBag
    /\ started = 0
    /\ issued = 0
    /\ job = IdleJob
    /\ resolved = {}
    /\ allocated = {}
    /\ call = IdleCall
    /\ file = NoFile
    /\ writers = [w \in Writers |-> IdleWriter]
    /\ executor = [work_queue |-> <<>>, workers |-> [w \in Workers |-> NoTask]]
    /\ handlers = [r \in Requests |-> [pc |-> "idle"]]
    /\ wardrobe_json = NoFile
    /\ threads = [dispatcher |-> [pc |-> "idle", confirmed |-> 0],
                  worker |-> [w \in Workers |-> [pc |-> "idle"]]]

\* ------------------------------------------------------- staging store (JSON)
_load_wardrobe == wardrobe

_load_temporary_inventory == staging

\* uuid4 taken as a value never produced before (the draw itself, twelve hex
\* digits that nothing compares with the store, is in StageIntakeDrawn)
NewTempId == issued + 1

\* the text of a temp id: f"temp_{uuid.uuid4().hex[:12]}"
TempIdText(temp_id) == <<"temp", "_">> \o StrNat(temp_id)

\* ---------------------------------------------------------- intake, stage 1
\* what stage 1 of POST /extract-cloth ends with: a processed PNG from
\* extract_cloth in the worker pool, a refused upload (400), or a failed
\* extraction (500)
ExtractOutcomes ==
    {[status |-> 0, png |-> png] : png \in Images}
    \cup {[status |-> 400, png |-> <<>>], [status |-> 500, png |-> <<>>]}

ExtractCloth(out) ==
    /\ started < MaxIntakes
    /\ started' = started + 1
    /\ intake' = IF out.status = 0
                 THEN intake (+) SetToBag({[pc |-> "preprocessed", png |-> out.png,
                                            item |-> <<>>]})
                 ELSE intake
    /\ UNCHANGED <<stores, issued, job, resolved, allocated>>
    /\ UNCHANGED aux

\* ---------------------------------------------------------- intake, stage 2
\* the inventory item built from a processed image and the label ranked first
generate_inventory_item(png, label, existing_items) ==
    LET rgb == extract_dominant_rgb(png)
        category == map_inventory_type(label)[1]
        item_type == map_inventory_type(label)[2]
    IN [id |-> generate_smart_id(category, item_type, existing_items),
        category |-> category,
        type |-> item_type,
        color |-> [name |-> map_color_name(rgb), rgb |-> rgb,
                   group |-> map_color_group(rgb)]]

\* what the classifier ends with: the label ranked first, or ValueError
\* (multi-garment, scorer failure), answered with 400
ClassifyOutcomes ==
    {[status |-> 0, label |-> label] : label \in IntakeLabels}
    \cup {[status |-> 400, label |-> <<>>]}

\* a second stage that has written the temp image by the time it is refused
GenerateInventory_imageFirst(req, out) ==
    /\ BagIn(req, intake)
    /\ req.pc = "preprocessed"
    /\ IF out.status = 0
       THEN LET item == generate_inventory_item(req.png, out.label, _load_wardrobe)
            IN /\ intake' = (intake (-) SetToBag({req})) (+)
                            SetToBag({[req EXCEPT !.pc = "classified", !.item = item]})
               /\ allocated' = allocated \cup
                     {[id |-> item.id, category |-> item.category, type |-> item.type]}
               /\ UNCHANGED tempImages
       ELSE /\ intake' = intake (-) SetToBag({req})
            /\ tempImages' = Put(tempImages, NewTempId, req.png)
            /\ UNCHANGED allocated
    /\ UNCHANGED <<wardrobe, staging, permImages, catalog, started, issued, job, resolved>>
    /\ UNCHANGED aux

\* generate_inventory_item in the worker pool
GenerateInventory(req, out) ==
    /\ BagIn(req, intake)
    /\ req.pc = "preprocessed"
    /\ IF out.status = 0
       THEN LET item == generate_inventory_item(req.png, out.label, _load_wardrobe)
            IN /\ intake' = (intake (-) SetToBag({req})) (+)
                            SetToBag({[req EXCEPT !.pc = "classified", !.item = item]})
               /\ allocated' = allocated \cup
                     {[id |-> item.id, category |-> item.category, type |-> item.type]}
       ELSE /\ intake' = intake (-) SetToBag({req})
            /\ UNCHANGED allocated
    /\ UNCHANGED <<stores, started, issued, job, resolved>>
    /\ UNCHANGED aux

\* ---------------------------------------------------------- intake, stage 3
\* datetime.utcnow(): the clock ticks with every record staged
utcnow == issued

\* save_to_temporary_inventory
save_to_temporary_inventory(temp_id, inventory_item, image_base64) ==
    /\ tempImages' = Put(tempImages, temp_id, b64decode(image_base64))
    /\ staging' = Put(_load_temporary_inventory, temp_id,
                      [temp_id |-> temp_id,
                       inventory |-> inventory_item,
                       image |-> [data |-> image_base64, path |-> TempPath(temp_id)],
                       created_at |-> utcnow,
                       status |-> "pending"])

\* the rest of /extract-cloth on the dispatcher: stage, answer 200 with temp_id
StageIntake(req) ==
    /\ BagIn(req, intake)
    /\ req.pc = "classified"
    /\ save_to_temporary_inventory(NewTempId, req.item, b64encode(req.png))
    /\ issued' = NewTempId
    /\ intake' = intake (-) SetToBag({req})
    /\ UNCHANGED <<wardrobe, permImages, catalog, started, job, resolved, allocated>>
    /\ UNCHANGED aux

\* ------------------------------------------------- staging endpoints (cloth.py)
\* the fields of the request model InventoryUpdate
InventoryUpdateFields ==
    {"category", "type", "subtype", "color", "fit", "formality", "season"}

\* a request model that lets every key of the body through
ParseAnyBody(body) == body

\* InventoryUpdate(**body).dict(exclude_none=True): unknown keys are dropped
\* (a key sent as null is a key not sent: the bodies carry no null)
ParseInventoryUpdate(body) ==
    [k \in {x \in DOMAIN body : x \in InventoryUpdateFields} |-> body[k]]

\* an update that puts the supplied dictionary in the place of the inventory
update_temporary_item_replace(temp_id, updated_data) ==
    LET temp_inventory == _load_temporary_inventory
        data == IF "inventory" \in DOMAIN updated_data
                THEN updated_data.inventory ELSE updated_data
    IN [temp_inventory EXCEPT ![temp_id].inventory = data]

\* update_temporary_item: the merged store, for a temp_id that is staged
update_temporary_item(temp_id, updated_data) ==
    LET temp_inventory == _load_temporary_inventory
        data == IF "inventory" \in DOMAIN updated_data
                THEN updated_data.inventory ELSE updated_data
    IN [temp_inventory EXCEPT ![temp_id].inventory = DictUpdate(@, data)]

\* the status PUT /temporary-inventory/{temp_id} answers with
UpdateTemporaryStatus(temp_id, body) ==
    IF DOMAIN ParseInventoryUpdate(body) = {} THEN 400
    ELSE IF temp_id \notin DOMAIN _load_temporary_inventory THEN 404
    ELSE 200

\* PUT /temporary-inventory/{temp_id}
UpdateTemporary(temp_id, body) ==
    /\ IF UpdateTemporaryStatus(temp_id, body) = 200
       THEN staging' = update_temporary_item(temp_id, ParseInventoryUpdate(body))
       ELSE UNCHANGED staging
    /\ UNCHANGED <<wardrobe, tempImages, permImages, catalog, intake, started, issued,
                   job, resolved, allocated>>
    /\ UNCHANGED aux

\* the status POST /temporary-inventory/{temp_id}/confirm answers with
ConfirmTemporaryStatus(temp_id) ==
    IF temp_id \notin DOMAIN _load_temporary_inventory THEN 404 ELSE 200

\* POST /temporary-inventory/{temp_id}/confirm: confirm_and_move_to_wardrobe
ConfirmTemporary(temp_id) ==
    LET temp_inventory == _load_temporary_inventory
    IN /\ IF ConfirmTemporaryStatus(temp_id) = 200
          THEN /\ wardrobe' = Append(_load_wardrobe, temp_inventory[temp_id].inventory)
               /\ staging' = Del(temp_inventory, temp_id)
               /\ resolved' = resolved \cup {temp_id}
          ELSE UNCHANGED <<wardrobe, staging, resolved>>
       /\ UNCHANGED <<tempImages, permImages, catalog, intake, started, issued, job,
                      allocated>>
       /\ UNCHANGED aux

\* an endpoint that answers 200 whether or not the temp_id is staged
DeleteTemporaryStatus_found(temp_id) == 200

\* the status DELETE /temporary-inventory/{temp_id} answers with
DeleteTemporaryStatus(temp_id) ==
    IF temp_id \notin DOMAIN _load_temporary_inventory THEN 404 ELSE 200

\* delete_temporary_item, for a temp_id that is staged
delete_temporary_item(temp_id) ==
    /\ staging' = Del(_load_temporary_inventory, temp_id)
    /\ UNCHANGED tempImages

\* DELETE /temporary-inventory/{temp_id}
DeleteTemporary(temp_id) ==
    /\ IF DeleteTemporaryStatus(temp_id) = 200
       THEN /\ delete_temporary_item(temp_id)
            /\ resolved' = resolved \cup {temp_id}
       ELSE UNCHANGED <<staging, tempImages, resolved>>
    /\ UNCHANGED <<wardrobe, permImages, catalog, intake, started, issued, job,
                   allocated>>
    /\ UNCHANGED aux

\* ------------------------------------------------- image service (files)
\* move_temp_to_permanent: [found, temp, perm]; os.rename replaces the target
move_temp_to_permanent(temp, perm, temp_id, item_id) ==
    IF temp_id \notin DOMAIN temp
    THEN [found |-> FALSE, temp |-> temp, perm |-> perm]
    ELSE [found |-> TRUE, temp |-> Del(temp, temp_id),
          perm |-> Put(perm, item_id, temp[temp_id])]

save_permanent_image(perm, image_bytes, item_id) == Put(perm, item_id, image_bytes)

delete_permanent_image(perm, item_id) ==
    IF item_id \in DOMAIN perm THEN Del(perm, item_id) ELSE perm

\* ------------------------------------------------- catalog store (SQLite)
get_inventory_item(db, item_id) == {row \in db : row.id = item_id}

\* db.commit() of the INSERT raises IntegrityError: primary key id, or NULL in
\* a nullable=False column (color_name, color_group)
InsertFails(db, row) ==
    \/ get_inventory_item(db, row.id) # {}
    \/ \E c \in {"color_name", "color_group"} : row[c] = None

\* Column(DateTime, default=utcnow, onupdate=utcnow): the times of a row are
\* counted in writes of the row, 0 being the insert; a commit that changes no
\* column writes nothing
onupdate(item, changed) ==
    IF changed = item THEN item
    ELSE [changed EXCEPT !.updated_at = item.updated_at + 1]

\* save_from_temporary passing type for category and category for type
RowFromTemporary_swapped(inventory_data, image_path) ==
    LET color == Get(inventory_data, "color", <<>>)
    IN [id |-> inventory_data.id,
        image_path |-> image_path,
        image_url |-> NoPath,
        category |-> inventory_data.type,
        type |-> inventory_data.category,
        color_name |-> Get(color, "name", None),
        color_rgb |-> Get(color, "rgb", <<>>),
        color_group |-> Get(color, "group", None),
        created_at |-> 0,
        updated_at |-> 0]

\* the row save_from_temporary hands to create_inventory_item
RowFromTemporary(inventory_data, image_path) ==
    LET color == Get(inventory_data, "color", <<>>)
    IN [id |-> inventory_data.id,
        image_path |-> image_path,
        image_url |-> NoPath,
        category |-> inventory_data.category,
        type |-> inventory_data.type,
        color_name |-> Get(color, "name", None),
        color_rgb |-> Get(color, "rgb", <<>>),
        color_group |-> Get(color, "group", None),
        created_at |-> 0,
        updated_at |-> 0]

\* the image files after the first half of save_from_temporary
ImagesAfterSave(temp, perm, temp_id, item_id, image_bytes) ==
    LET moved == move_temp_to_permanent(temp, perm, temp_id, item_id)
    IN IF moved.found THEN moved
       ELSE [found |-> FALSE, temp |-> temp,
             perm |-> save_permanent_image(perm, image_bytes, item_id)]

\* the row POST /api/inventory/save tries to insert for a staged temp_id
SaveRow(temp_id) ==
    LET inventory_data == _load_temporary_inventory[temp_id].inventory
    IN RowFromTemporary(inventory_data, PermanentPath(inventory_data.id))

\* the status POST /api/inventory/save answers with
SaveInventoryItemStatus(temp_id) ==
    IF temp_id \notin DOMAIN _load_temporary_inventory THEN 404
    ELSE IF InsertFails(catalog, SaveRow(temp_id)) THEN 500
    ELSE 200

\* POST /api/inventory/save: save_inventory_item around save_from_temporary
SaveInventoryItem(temp_id) ==
    /\ IF SaveInventoryItemStatus(temp_id) = 404
       THEN UNCHANGED <<tempImages, permImages, catalog, resolved>>
       ELSE LET temp_item == _load_temporary_inventory[temp_id]
                image_bytes == b64decode(temp_item.image.data)
                row == SaveRow(temp_id)
                files == ImagesAfterSave(tempImages, permImages, temp_id, row.id,
                                         image_bytes)
            IN /\ tempImages' = files.temp
               /\ permImages' = files.perm
               /\ IF SaveInventoryItemStatus(temp_id) = 500
                  THEN UNCHANGED <<catalog, resolved>>
                  ELSE /\ catalog' = catalog \cup
                          {onupdate(row, [row EXCEPT !.image_url = row.image_path])}
                       /\ resolved' = resolved \cup {temp_id}
    /\ UNCHANGED <<wardrobe, staging, intake, started, issued, job, allocated>>
    /\ UNCHANGED aux

\* the fields of the request model InventoryUpdateRequest
InventoryUpdateRequestFields ==
    {"category", "type", "subtype", "color_name", "color_rgb", "color_group",
     "fit", "formality", "season"}

\* InventoryUpdateRequest(**body).dict(exclude_none=True)
ParseInventoryUpdateRequest(body) ==
    [k \in {x \in DOMAIN body : x \in InventoryUpdateRequestFields} |-> body[k]]

allowed_fields ==
    {"category", "type", "subtype", "color_name", "color_rgb", "color_group",
     "fit", "formality", "season", "type_confidence", "color_confidence",
     "image_url"}

\* update_inventory_item: the row after setattr of the allowed fields
update_inventory_item(item, kwargs) ==
    onupdate(item, DictUpdate(item, [k \in {x \in DOMAIN kwargs : x \in allowed_fields} |->
                                        kwargs[k]]))

\* a merge that blanks the parts of the color the request does not carry
MergeColor_blank(update_data, item) ==
    IF DOMAIN update_data \cap {"color_name", "color_rgb", "color_group"} = {}
    THEN update_data
    ELSE DictUpdate([color_name |-> None, color_rgb |-> <<>>, color_group |-> None],
                    update_data)

\* the endpoint's merge of a partial color with the stored color
MergeColor(update_data, item) ==
    IF DOMAIN update_data \cap {"color_name", "color_rgb", "color_group"} = {}
    THEN update_data
    ELSE DictUpdate([k \in {"color_name", "color_rgb", "color_group"} |-> item[k]],
                    update_data)

\* the status PUT /api/inventory/{item_id} answers with
UpdateInventoryItemStatus(item_id) ==
    IF get_inventory_item(catalog, item_id) = {} THEN 404 ELSE 200

\* PUT /api/inventory/{item_id}
UpdateInventoryItem(item_id, body) ==
    LET update_data == ParseInventoryUpdateRequest(body)
        found == get_inventory_item(catalog, item_id)
    IN /\ IF UpdateInventoryItemStatus(item_id) = 404
          THEN UNCHANGED catalog
          ELSE LET item == CHOOSE row \in found : TRUE
               IN catalog' = (catalog \ {item}) \cup
                      {update_inventory_item(item, MergeColor(update_data, item))}
       /\ UNCHANGED <<wardrobe, staging, tempImages, permImages, intake, started, issued,
                      job, resolved, allocated>>
       /\ UNCHANGED aux

\* the status DELETE /api/inventory/{item_id} answers with
DeleteInventoryItemStatus(item_id) ==
    IF get_inventory_item(catalog, item_id) = {} THEN 404 ELSE 200

\* DELETE /api/inventory/{item_id}: delete_inventory_item
DeleteInventoryItem(item_id) ==
    /\ IF DeleteInventoryItemStatus(item_id) = 404
       THEN UNCHANGED <<permImages, catalog>>
       ELSE /\ permImages' = delete_permanent_image(permImages, item_id)
            /\ catalog' = catalog \ get_inventory_item(catalog, item_id)
    /\ UNCHANGED <<wardrobe, staging, tempImages, intake, started, issued, job, resolved,
                   allocated>>
    /\ UNCHANGED aux

\* ------------------------------------------------------------- specification
\* every request is handled from start to end before the next one, except
\* /extract-cloth, which is suspended while its two stages run in the pool
Next ==
    \/ \E out \in ExtractOutcomes : ExtractCloth(out)
    \/ \E req \in BagToSet(intake), out \in ClassifyOutcomes : GenerateInventory(req, out)
    \/ \E req \in BagToSet(intake) : StageIntake(req)
    \/ \E t \in TempIds, body \in EditBodies : UpdateTemporary(t, body)
    \/ \E t \in TempIds : ConfirmTemporary(t)
    \/ \E t \in TempIds : DeleteTemporary(t)
    \/ \E t \in TempIds : SaveInventoryItem(t)
    \/ \E i \in ItemIds, body \in UpdateBodies : UpdateInventoryItem(i, body)
    \/ \E i \in ItemIds : DeleteInventoryItem(i)

Spec == Init /\ [][Next]_vars

\* ------------------------------------------- the catalog handlers, step by step
\* One POST /api/inventory/save or DELETE /api/inventory/{item_id} advances one
\* file or database operation at a time, while the other requests are handled
\* in between (another server process on the same files and database).
SaveLookupStep(temp_id) ==
    /\ job.pc = "idle"
    /\ temp_id \in DOMAIN _load_temporary_inventory
    /\ job' = [pc |-> "save_image", temp_id |-> temp_id,
               inventory_data |-> _load_temporary_inventory[temp_id].inventory,
               image_bytes |-> b64decode(_load_temporary_inventory[temp_id].image.data)]
    /\ UNCHANGED <<stores, intake, started, issued, resolved, allocated>>
    /\ UNCHANGED aux

\* save_from_temporary, first half: move_temp_to_permanent or save_permanent_image
SaveImageStep ==
    /\ job.pc = "save_image"
    /\ LET files == ImagesAfterSave(tempImages, permImages, job.temp_id,
                                    job.inventory_data.id, job.image_bytes)
       IN /\ tempImages' = files.temp
          /\ permImages' = files.perm
    /\ job' = [job EXCEPT !.pc = "save_row"]
    /\ UNCHANGED <<wardrobe, staging, catalog, intake, started, issued, resolved,
                   allocated>>
    /\ UNCHANGED aux

\* save_from_temporary, second half: create_inventory_item commits or raises
SaveRowStep ==
    /\ job.pc = "save_row"
    /\ LET row == RowFromTemporary(job.inventory_data,
                                   PermanentPath(job.inventory_data.id))
       IN IF InsertFails(catalog, row)
          THEN /\ job' = IdleJob
               /\ UNCHANGED <<catalog, resolved>>
          ELSE /\ job' = [pc |-> "save_url", item_id |-> row.id]
               /\ catalog' = catalog \cup {row}
               /\ resolved' = resolved \cup {job.temp_id}
    /\ UNCHANGED <<wardrobe, staging, tempImages, permImages, intake, started, issued,
                   allocated>>
    /\ UNCHANGED aux

\* save_inventory_item: db_item.image_url = image_url; db.commit()
SaveUrlStep ==
    /\ job.pc = "save_url"
    /\ catalog' = {IF row.id = job.item_id
                   THEN onupdate(row, [row EXCEPT !.image_url = row.image_path])
                   ELSE row : row \in catalog}
    /\ job' = IdleJob
    /\ UNCHANGED <<wardrobe, staging, tempImages, permImages, intake, started, issued,
                   resolved, allocated>>
    /\ UNCHANGED aux

\* delete_inventory_item: get_inventory_item finds the row
DeleteLookupStep(item_id) ==
    /\ job.pc = "idle"
    /\ get_inventory_item(catalog, item_id) # {}
    /\ job' = [pc |-> "delete_image", item_id |-> item_id]
    /\ UNCHANGED <<stores, intake, started, issued, resolved, allocated>>
    /\ UNCHANGED aux

\* delete_inventory_item: delete_permanent_image(item_id)
DeleteImageStep ==
    /\ job.pc = "delete_image"
    /\ permImages' = delete_permanent_image(permImages, job.item_id)
    /\ job' = [job EXCEPT !.pc = "delete_row"]
    /\ UNCHANGED <<wardrobe, staging, tempImages, catalog, intake, started, issued,
                   resolved, allocated>>
    /\ UNCHANGED aux

\* delete_inventory_item: db.delete(item); db.commit()
DeleteRowStep ==
    /\ job.pc = "delete_row"
    /\ catalog' = catalog \ get_inventory_item(catalog, job.item_id)
    /\ job' = IdleJob
    /\ UNCHANGED <<wardrobe, staging, tempImages, permImages, intake, started, issued,
                   resolved, allocated>>
    /\ UNCHANGED aux

StepNext ==
    \/ Next
    \/ \E t \in TempIds : SaveLookupStep(t)
    \/ SaveImageStep
    \/ SaveRowStep
    \/ SaveUrlStep
    \/ \E i \in ItemIds : DeleteLookupStep(i)
    \/ DeleteImageStep
    \/ DeleteRowStep

StepSpec == Init /\ [][StepNext]_vars

\* ------------------------------------------------- the draw of the temp id
\* /extract-cloth staging under the temp id uuid4 happens to give: twelve hex
\* digits of a random value, written into the store without a lookup
StageIntakeDrawn(req, temp_id) ==
    /\ BagIn(req, intake)
    /\ req.pc = "classified"
    /\ save_to_temporary_inventory(temp_id, req.item, b64encode(req.png))
    /\ issued' = issued + 1
    /\ intake' = intake (-) SetToBag({req})
    /\ UNCHANGED <<wardrobe, permImages, catalog, started, job, resolved, allocated>>
    /\ UNCHANGED aux

DrawNext ==
    \/ \E out \in ExtractOutcomes : ExtractCloth(out)
    \/ \E req \in BagToSet(intake), out \in ClassifyOutcomes : GenerateInventory(req, out)
    \/ \E req \in BagToSet(intake), t \in TempIds : StageIntakeDrawn(req, t)
    \/ \E t \in TempIds : ConfirmTemporary(t)
    \/ \E t \in TempIds : DeleteTemporary(t)
    \/ \E t \in TempIds : SaveInventoryItem(t)

DrawSpec == Init /\ [][DrawNext]_vars

\* ------------------------------------------- the functions of the services
\* Each function of the services is called on its own, with arguments drawn
\* from the sets below, and returns before the next call.
vars_requests == <<wardrobe, staging, tempImages, permImages, catalog, intake, started,
                   issued, job, resolved, allocated>>

\* (category, type) pairs handed to generate_smart_id
AllocatorPairs == { << <<"topwear">>, <<"shirt">> >>, << <<"bottomwear">>, <<"pants">> >> }

\* items found in wardrobe.json: well-formed ids, a gap in the numbering, three
\* digits to come, an unpadded and an over-padded number, suffixes int()
\* refuses ("abc", ""), a signed suffix, an id with a fourth part, an id
\* without separator, and an item without id
ExistingItemPool ==
    {[id |-> x] : x \in
        { <<"topwear", "_", "shirt", "_", "0", "1">>,
          <<"topwear", "_", "shirt", "_", "0", "3">>,
          <<"topwear", "_", "shirt", "_", "9", "9">>,
          <<"topwear", "_", "shirt", "_", "1">>,
          <<"topwear", "_", "shirt", "_", "0", "0", "2">>,
          <<"topwear", "_", "shirt", "_", "abc">>,
          <<"topwear", "_", "shirt", "_">>,
          <<"topwear", "_", "shirt", "_", "-", "5">>,
          <<"topwear", "_", "shirt", "_", "x", "_", "0", "9">>,
          <<"bottomwear", "_", "pants", "_", "0", "7">>,
          <<"legacy">> }}
    \cup {[category |-> <<"topwear">>]}

ExistingItemLists == UNION {[1..n -> ExistingItemPool] : n \in 0..MaxItems}

\* scores around the thresholds 50 and 30 and around the gap 20
ScoreValues == {0, 30, 49, 50, 51, 70}

\* what the scorer does: a probability per label, or an exception
ScorerOutcomes ==
    {[ok |-> TRUE, probs |-> probs] : probs \in [1..Len(LABELS) -> ScoreValues]}
    \cup {[ok |-> FALSE, error |-> "RuntimeError"]}

\* generate_inventory_item with its exceptions: the ValueError of classify_type
\* is raised again, any other exception becomes a ValueError
generate_inventory_item_result(png, scorer, generator, existing_items) ==
    LET classified == classify_type(scorer)
    IN IF ~classified.ok THEN classified
       ELSE IF generator # "ok"
       THEN [ok |-> FALSE, error |-> "ValueError",
             message |-> [text |-> "Failed to generate inventory:", cause |-> generator]]
       ELSE [ok |-> TRUE,
             item |-> generate_inventory_item(png, classified.label, existing_items)]

\* what POST /extract-cloth answers, given how each of its steps ends:
\* upload: "ok", "bad_type", "empty" or "too_large"
\* pre: what extract_cloth does: it returns a PNG (or no bytes), or raises ValueError
\* scorer: what the scorer does inside classify_type
\* generator: "ok", or an exception inside generate_inventory_item
\* store: "ok", or an exception of save_to_temporary_inventory
extract_cloth_response(upload, pre, scorer, generator, store) ==
    IF upload = "bad_type"
    THEN [status_code |-> 400, detail |-> [text |-> "Invalid file type. Allowed types:"]]
    ELSE IF upload = "empty"
    THEN [status_code |-> 400, detail |-> [text |-> "Empty file uploaded"]]
    ELSE IF upload = "too_large"
    THEN [status_code |-> 400, detail |-> [text |-> "File too large. Maximum size:"]]
    ELSE IF ~pre.ok
    THEN [status_code |-> 500, detail |-> [text |-> "Internal server error while processing image"]]
    ELSE IF pre.png = <<>>
    THEN [status_code |-> 500, detail |-> [text |-> "Failed to process image. Please try again."]]
    ELSE LET generated == generate_inventory_item_result(pre.png, scorer, generator, <<>>)
         IN IF ~generated.ok
            THEN [status_code |-> 400, detail |-> generated.message]
            ELSE IF store # "ok"
            THEN [status_code |-> 500,
                  detail |-> [text |-> "Internal server error while processing image"]]
            ELSE [status_code |-> 200, inventory |-> generated.item]

\* the scorer outcomes of the modelled uploads: the first two labels compete
IntakeScorers ==
    {o \in ScorerOutcomes : o.ok => \A i \in 3..Len(LABELS) : o.probs[i] = 0}

IntakeRuns ==
    [upload : {"ok", "bad_type", "empty", "too_large"},
     pre : {[ok |-> TRUE, png |-> PngRed], [ok |-> TRUE, png |-> <<>>],
            [ok |-> FALSE, error |-> "ValueError"]},
     scorer : IntakeScorers,
     generator : {"ok", "KeyError"},
     store : {"ok", "OSError"}]

CallExtractClothApi(run) ==
    /\ call.fn = "idle"
    /\ call' = [fn |-> "extract_cloth_api", args |-> <<run>>,
                ret |-> extract_cloth_response(run.upload, run.pre, run.scorer,
                                               run.generator, run.store)]
    /\ UNCHANGED <<vars_requests, file, writers, vars_pool, vars_alloc>>

CallGenerateSmartId(pair, existing_items) ==
    /\ call.fn = "idle"
    /\ call' = [fn |-> "generate_smart_id",
                args |-> <<pair[1], pair[2], existing_items>>,
                ret |-> generate_smart_id(pair[1], pair[2], existing_items)]
    /\ UNCHANGED <<vars_requests, file, writers, vars_pool, vars_alloc>>

\* channel values around the bounds 80 and 200, 19 and 20 apart, 25 and 26 apart
ChannelValues == {0, 79, 80, 81, 100, 119, 138, 199, 200, 201, 225, 226, 255}

CallMapColor(rgb) ==
    /\ call.fn = "idle"
    /\ call' = [fn |-> "map_color", args |-> <<rgb>>,
                ret |-> [group |-> map_color_group(rgb), name |-> map_color_name(rgb)]]
    /\ UNCHANGED <<vars_requests, file, writers, vars_pool, vars_alloc>>

\* opaque, barely visible (alpha 1) and transparent pixels; a transparent
\* pixel may carry any color
PixelPool == {<<200, 20, 20, 255>>, <<221, 31, 41, 255>>, <<10, 250, 7, 1>>,
              <<0, 0, 0, 0>>, <<255, 255, 255, 0>>}

DecodedImages == UNION {[1..n -> PixelPool] : n \in 1..MaxPixels}

CallExtractDominantRgb(image) ==
    /\ call.fn = "idle"
    /\ call' = [fn |-> "extract_dominant_rgb", args |-> <<image>>,
                ret |-> extract_dominant_rgb(image)]
    /\ UNCHANGED <<vars_requests, file, writers, vars_pool, vars_alloc>>

\* the uploads: bytes Image.open refuses, a portrait and a flat lay
Uploads ==
    {[ok |-> FALSE, image |-> <<>>],
     [ok |-> TRUE, image |-> <<"face", "collar", "chest", "hem">>],
     [ok |-> TRUE, image |-> <<"sleeve", "chest">>]}

\* what face detection does: no face, an exception, or the lower edge of the
\* face above the image, at its top, and one and two rows down
FaceOutcomes ==
    {[kind |-> "none", y |-> 0], [kind |-> "raises", y |-> 0]}
    \cup {[kind |-> "found", y |-> y] : y \in {-1, 0, 1, 2}}

CallExtractCloth(upload, face, segmenter) ==
    /\ call.fn = "idle"
    /\ call' = [fn |-> "extract_cloth", args |-> <<upload, face, segmenter>>,
                ret |-> extract_cloth(upload, face, segmenter)]
    /\ UNCHANGED <<vars_requests, file, writers, vars_pool, vars_alloc>>

CallClassifyType(scorer) ==
    /\ call.fn = "idle"
    /\ call' = [fn |-> "classify_type", args |-> <<scorer>>, ret |-> classify_type(scorer)]
    /\ UNCHANGED <<vars_requests, file, writers, vars_pool, vars_alloc>>

Return ==
    /\ call.fn # "idle"
    /\ call' = IdleCall
    /\ UNCHANGED <<vars_requests, file, writers, vars_pool, vars_alloc>>

FnNext ==
    \/ /\ call.fn = "idle"
       /\ \E pair \in AllocatorPairs, existing_items \in ExistingItemLists :
             CallGenerateSmartId(pair, existing_items)
    \/ /\ call.fn = "idle"
       /\ \E scorer \in ScorerOutcomes : CallClassifyType(scorer)
    \/ /\ call.fn = "idle"
       /\ \E run \in IntakeRuns : CallExtractClothApi(run)
    \/ /\ call.fn = "idle"
       /\ \E rgb \in [1..3 -> ChannelValues] : CallMapColor(rgb)
    \/ /\ call.fn = "idle"
       /\ \E image \in DecodedImages : CallExtractDominantRgb(image)
    \/ /\ call.fn = "idle"
       /\ \E upload \in Uploads, face \in FaceOutcomes, segmenter \in {"ok", "raises"} :
             CallExtractCloth(upload, face, segmenter)
    \/ Return

FnSpec == Init /\ [][FnNext]_vars

\* ------------------------------- temporary_inventory.json, operation by operation
\* The staging requests of several server processes on the one file: each
\* request loads the file, changes the loaded dictionary, opens the file for
\* writing (which empties it) and dumps the dictionary into it.  The bytes of
\* the file are a sequence of tokens: the braces and one token per entry.
LBrace == [tok |-> "{"]

RBrace == [tok |-> "}"]

RECURSIVE DumpEntries(_, _)
DumpEntries(data, keys) ==
    IF keys = {} THEN <<>>
    ELSE LET k == CHOOSE x \in keys : \A y \in keys : x <= y
         IN <<[tok |-> "entry", key |-> k, value |-> data[k]]>>
            \o DumpEntries(data, keys \ {k})

\* what json.dump(data, f) writes, from the first byte to the last
json_dump(data) == <<LBrace>> \o DumpEntries(data, DOMAIN data) \o <<RBrace>>

\* whether json.load accepts the bytes (otherwise it raises)
IsJson(bytes) ==
    /\ Len(bytes) >= 2
    /\ bytes[1] = LBrace
    /\ bytes[Len(bytes)] = RBrace
    /\ \A i \in 2..(Len(bytes) - 1) : bytes[i].tok = "entry"

json_load(bytes) ==
    [k \in {bytes[i].key : i \in 2..(Len(bytes) - 1)} |->
        bytes[CHOOSE i \in 2..(Len(bytes) - 1) : bytes[i].key = k].value]

\* _load_temporary_inventory on the file: {} when the file does not exist or
\* json.load raises
LoadFile(f) == IF f.exists /\ IsJson(f.bytes) THEN json_load(f.bytes) ELSE <<>>

\* the record an intake stages under temp_id
StagedRecordOf(temp_id) ==
    [temp_id |-> temp_id,
     inventory |-> generate_inventory_item(PngRed, LABELS[1], <<>>),
     image |-> [data |-> b64encode(PngRed), path |-> TempPath(temp_id)],
     created_at |-> utcnow,
     status |-> "pending"]

\* the body of the edit requests
WriterEdit == [type |-> <<"pants">>]

StagingOps == {"insert", "edit", "confirm", "discard"}

\* the requests a client sends for a record: it is staged once, edited once at
\* most, and confirmed or discarded once
OpAllowed(phase, op) ==
    \/ phase = "new" /\ op = "insert"
    \/ phase = "staged" /\ op \in {"edit", "confirm", "discard"}
    \/ phase = "edited" /\ op \in {"confirm", "discard"}

PhaseAfter(op) ==
    IF op = "insert" THEN "staged" ELSE IF op = "edit" THEN "edited" ELSE "gone"

\* the loaded dictionary after the change of the operation
Mutate(op, temp_inventory, temp_id) ==
    IF op = "insert" THEN Put(temp_inventory, temp_id, StagedRecordOf(temp_id))
    ELSE IF op = "edit"
    THEN [temp_inventory EXCEPT ![temp_id].inventory = DictUpdate(@, WriterEdit)]
    ELSE Del(temp_inventory, temp_id)

vars_not_file == <<staging, permImages, catalog, intake, started, issued, job,
                   resolved, allocated, call, vars_pool, vars_alloc>>

\* the request arrives and runs up to its _save_temporary_inventory: the temp
\* image of an insert, the load, the not-found return, the change, and the
\* write of wardrobe.json of a confirm
StartWrite(w, op) ==
    /\ writers[w].pc = "idle"
    /\ OpAllowed(writers[w].phase, op)
    /\ tempImages' = IF op = "insert" THEN Put(tempImages, w, PngRed) ELSE tempImages
    /\ LET temp_inventory == LoadFile(file)
       IN IF op # "insert" /\ w \notin DOMAIN temp_inventory
          THEN UNCHANGED <<writers, wardrobe>>
          ELSE /\ writers' = [writers EXCEPT ![w] =
                                [pc |-> "open", phase |-> writers[w].phase, op |-> op,
                                 loaded |-> temp_inventory,
                                 data |-> Mutate(op, temp_inventory, w)]]
               /\ wardrobe' = IF op = "confirm"
                               THEN Append(wardrobe, temp_inventory[w].inventory)
                               ELSE wardrobe
    /\ UNCHANGED <<file, vars_not_file>>

\* _save_temporary_inventory: open(TEMP_INVENTORY_FILE, "w") empties the file
OpenFile(w) ==
    /\ writers[w].pc = "open"
    /\ file' = [exists |-> TRUE, bytes |-> <<>>]
    /\ writers' = [writers EXCEPT ![w].pc = "dump"]
    /\ UNCHANGED <<wardrobe, tempImages, vars_not_file>>

\* _save_temporary_inventory: json.dump writes everything and the request returns
DumpFile(w) ==
    /\ writers[w].pc = "dump"
    /\ file' = [exists |-> TRUE, bytes |-> json_dump(writers[w].data)]
    /\ writers' = [writers EXCEPT ![w] =
                     [pc |-> "idle", phase |-> PhaseAfter(writers[w].op)]]
    /\ UNCHANGED <<wardrobe, tempImages, vars_not_file>>

\* _save_temporary_inventory: the write fails (disk full, process killed) after
\* n tokens; the request ends with an error
FailDump(w, n) ==
    /\ writers[w].pc = "dump"
    /\ n < Len(json_dump(writers[w].data))
    /\ file' = [exists |-> TRUE, bytes |-> SubSeq(json_dump(writers[w].data), 1, n)]
    /\ writers' = [writers EXCEPT ![w] = [pc |-> "idle", phase |-> "failed"]]
    /\ UNCHANGED <<wardrobe, tempImages, vars_not_file>>

RaceNext ==
    \/ \E w \in Writers, op \in StagingOps : StartWrite(w, op)
    \/ \E w \in Writers : OpenFile(w)
    \/ \E w \in Writers : DumpFile(w)

\* several requests at a time, no failure
RaceSpec == Init /\ [][RaceNext]_vars

CrashNext ==
    \/ RaceNext
    \/ \E w \in Writers, n \in 0..(MaxWriters + 1) : FailDump(w, n)

\* several requests at a time, and writes that fail
CrashSpec == Init /\ [][CrashNext]_vars

\* ------------------------------------------------------------ the worker pool
\* The two inference stages of /extract-cloth in the pool.  The coroutine of a
\* request runs on the event loop; run_in_executor puts a work item on the
\* queue of the executor and the coroutine is suspended until the item is
\* done; a worker thread takes the items in the order they were put.
vars_not_pool == <<vars_requests, call, file, writers, vars_alloc>>

\* executor.submit: the work item goes to the end of the queue
submit(req, fn) ==
    [executor EXCEPT !.work_queue = Append(@, [req |-> req, fn |-> fn])]

\* the request arrives: the upload is refused (400), or extract_cloth is
\* submitted and the coroutine awaits it
Receive(r, valid) ==
    /\ handlers[r].pc = "idle"
    /\ IF valid
       THEN /\ executor' = submit(r, "extract_cloth")
            /\ handlers' = [handlers EXCEPT ![r].pc = "await_extract"]
       ELSE /\ handlers' = [handlers EXCEPT ![r].pc = "rejected"]
            /\ UNCHANGED executor
    /\ UNCHANGED vars_not_pool

\* a waiting worker thread takes the first work item
Work(w) ==
    /\ executor.workers[w] = NoTask
    /\ executor.work_queue # <<>>
    /\ executor' = [work_queue |-> Tail(executor.work_queue),
                    workers |-> [executor.workers EXCEPT ![w] = Head(executor.work_queue)]]
    /\ UNCHANGED <<handlers, vars_not_pool>>

\* the pc of the coroutine whose work item has returned or raised
AfterCall(fn, raised) ==
    IF fn = "extract_cloth"
    THEN (IF raised THEN "extract_raised" ELSE "extract_returned")
    ELSE (IF raised THEN "generate_raised" ELSE "generate_returned")

\* a worker thread that submits the second stage itself and waits for it
Done_blocking(w, raised) ==
    /\ executor.workers[w].fn \in {"extract_cloth", "generate_inventory_item"}
    /\ LET task == executor.workers[w]
       IN IF task.fn = "extract_cloth" /\ ~raised
          THEN /\ executor' =
                     [work_queue |-> Append(executor.work_queue,
                                            [req |-> task.req,
                                             fn |-> "generate_inventory_item"]),
                      workers |-> [executor.workers EXCEPT ![w] =
                                     [req |-> task.req, fn |-> "blocked"]]]
               /\ handlers' = [handlers EXCEPT ![task.req].pc = "await_generate"]
          ELSE /\ executor' =
                     [executor EXCEPT !.workers =
                        [v \in Workers |->
                           IF v = w \/ executor.workers[v].req = task.req
                           THEN NoTask ELSE executor.workers[v]]]
               /\ handlers' = [handlers EXCEPT ![task.req].pc = AfterCall(task.fn, raised)]
    /\ UNCHANGED vars_not_pool

\* the call in a worker thread ends: it returns or raises, the future is set
\* and the thread goes back to the queue
Done(w, raised) ==
    /\ executor.workers[w] # NoTask
    /\ LET task == executor.workers[w]
       IN /\ executor' = [executor EXCEPT !.workers[w] = NoTask]
          /\ handlers' = [handlers EXCEPT ![task.req].pc = AfterCall(task.fn, raised)]
    /\ UNCHANGED vars_not_pool

\* the event loop resumes the coroutine after its await: the second stage is
\* submitted, the record is staged, or the request is refused (400, 500)
Resume(r) ==
    /\ handlers[r].pc \in {"extract_returned", "extract_raised",
                           "generate_returned", "generate_raised"}
    /\ IF handlers[r].pc = "extract_returned"
       THEN /\ executor' = submit(r, "generate_inventory_item")
            /\ handlers' = [handlers EXCEPT ![r].pc = "await_generate"]
       ELSE /\ handlers' = [handlers EXCEPT ![r].pc =
                              IF handlers[r].pc = "generate_returned"
                              THEN "staged" ELSE "rejected"]
            /\ UNCHANGED executor
    /\ UNCHANGED vars_not_pool

PoolNext ==
    \/ \E r \in Requests, valid \in BOOLEAN : Receive(r, valid)
    \/ \E w \in Workers : Work(w)
    \/ \E w \in Workers, raised \in BOOLEAN : Done(w, raised)
    \/ \E r \in Requests : Resume(r)

\* a worker thread that waits takes an item when there is one; every call in
\* a worker thread ends; the event loop resumes a coroutine that can go on
PoolSpec ==
    /\ Init
    /\ [][PoolNext]_vars
    /\ \A w \in Workers : WF_vars(Work(w))
    /\ \A w \in Workers : WF_vars(\E raised \in BOOLEAN : Done(w, raised))
    /\ \A r \in Requests : WF_vars(Resume(r))

\* ------------------------------------- wardrobe.json, operation by operation
\* A confirmation on the dispatcher rewrites wardrobe.json while
\* generate_inventory_item, in a worker thread, loads it for generate_smart_id.
\* The bytes of the file are a sequence of tokens: the brackets and one token
\* per item.
vars_not_alloc == <<vars_requests, call, file, writers, vars_pool>>

LBracket == [tok |-> "["]

RBracket == [tok |-> "]"]

\* what json.dump(wardrobe, f) writes, from the first byte to the last
json_dump_list(items) ==
    <<LBracket>> \o [i \in 1..Len(items) |-> [tok |-> "item", value |-> items[i]]]
    \o <<RBracket>>

\* whether json.load accepts the bytes (otherwise it raises)
IsJsonList(bytes) ==
    /\ Len(bytes) >= 2
    /\ bytes[1] = LBracket
    /\ bytes[Len(bytes)] = RBracket
    /\ \A i \in 2..(Len(bytes) - 1) : bytes[i].tok = "item"

\* _load_wardrobe on the file: [] when the file does not exist or json.load
\* raises
LoadWardrobeFile(f) ==
    IF f.exists /\ IsJsonList(f.bytes)
    THEN [i \in 1..(Len(f.bytes) - 2) |-> f.bytes[i + 1].value]
    ELSE <<>>

\* confirm_and_move_to_wardrobe up to its open(): the staged shirt, whose id
\* was allocated after the confirmation before, is appended to the loaded list
ConfirmLoad ==
    /\ threads.dispatcher.pc = "idle"
    /\ threads.dispatcher.confirmed < MaxConfirms
    /\ LET loaded == LoadWardrobeFile(wardrobe_json)
           inventory_item == [id |-> generate_smart_id(<<"topwear">>, <<"shirt">>, loaded)]
       IN threads' = [threads EXCEPT !.dispatcher =
                        [pc |-> "open", confirmed |-> @.confirmed,
                         loaded |-> loaded, data |-> Append(loaded, inventory_item)]]
    /\ UNCHANGED <<wardrobe_json, vars_not_alloc>>

\* open(WARDROBE_FILE, "w") empties the file
ConfirmOpen ==
    /\ threads.dispatcher.pc = "open"
    /\ wardrobe_json' = [exists |-> TRUE, bytes |-> <<>>]
    /\ threads' = [threads EXCEPT !.dispatcher.pc = "dump"]
    /\ UNCHANGED vars_not_alloc

\* json.dump and the close of the file: the buffer reaches the disk up to
\* token n; with the last token the confirmation is over
ConfirmFlush(n) ==
    /\ threads.dispatcher.pc = "dump"
    /\ n > Len(wardrobe_json.bytes)
    /\ n <= Len(json_dump_list(threads.dispatcher.data))
    /\ wardrobe_json' = [exists |-> TRUE,
                         bytes |-> SubSeq(json_dump_list(threads.dispatcher.data), 1, n)]
    /\ threads' = IF n = Len(json_dump_list(threads.dispatcher.data))
                  THEN [threads EXCEPT !.dispatcher =
                          [pc |-> "idle", confirmed |-> @.confirmed + 1]]
                  ELSE threads
    /\ UNCHANGED vars_not_alloc

\* generate_smart_id(category, item_type) in a worker thread: existing_items
\* is what _load_wardrobe returns at that moment
AllocateId(w) ==
    /\ threads.worker[w].pc = "idle"
    /\ LET existing_items == LoadWardrobeFile(wardrobe_json)
       IN threads' = [threads EXCEPT !.worker[w] =
                        [pc |-> "allocated", existing_items |-> existing_items,
                         id |-> generate_smart_id(<<"topwear">>, <<"shirt">>,
                                                  existing_items)]]
    /\ UNCHANGED <<wardrobe_json, vars_not_alloc>>

\* the worker thread is free for the next request
AllocateReturn(w) ==
    /\ threads.worker[w].pc = "allocated"
    /\ threads' = [threads EXCEPT !.worker[w] = [pc |-> "idle"]]
    /\ UNCHANGED <<wardrobe_json, vars_not_alloc>>

AllocNext ==
    \/ ConfirmLoad
    \/ ConfirmOpen
    \/ \E n \in 1..(MaxConfirms + 2) : ConfirmFlush(n)
    \/ \E w \in Workers : AllocateId(w)
    \/ \E w \in Workers : AllocateReturn(w)

AllocSpec == Init /\ [][AllocNext]_vars

\* ==================================================================== claims
\* id has the form {category}_{type}_{NN}: the prefix, then two or more digits
HasIdForm(id, category, type) ==
    LET prefix == category \o US \o type \o US
    IN /\ startswith(id, prefix)
       /\ Len(id) >= Len(prefix) + 2
       /\ \A k \in (Len(prefix) + 1)..Len(id) : id[k] \in DigitSet

CatalogIds == {row.id : row \in catalog}

\* C1: any two confirmed records of the same (category, type) carry different
\* ids, whatever the order of their intakes and confirmations.
C1_ConfirmedIdsDiffer ==
    \A i, j \in 1..Len(wardrobe) :
        (/\ i < j
         /\ wardrobe[i].category = wardrobe[j].category
         /\ wardrobe[i].type = wardrobe[j].type)
        => wardrobe[i].id # wardrobe[j].id

\* C2: whenever an intake is about to allocate, the id it allocates is not the
\* id of a record already in the Catalog Store.
C2_AllocationAvoidsCatalog ==
    \A req \in BagToSet(intake), label \in IntakeLabels :
        req.pc = "preprocessed"
        => generate_inventory_item(req.png, label, _load_wardrobe).id \notin CatalogIds

\* C3: a successful promotion, by POST /api/inventory/save or by the confirm
\* endpoint, leaves no staged record with that temp_id.
C3_PromotionRemovesStaged ==
    [][\A t \in TempIds :
          (\/ SaveInventoryItemStatus(t) = 200 /\ SaveInventoryItem(t)
           \/ ConfirmTemporaryStatus(t) = 200 /\ ConfirmTemporary(t))
          => t \notin DOMAIN staging']_vars

\* C4: a save whose insert fails leaves the permanent images, the temp images
\* and the catalog as they were.
C4_FailedSaveChangesNothing ==
    [][\A t \in TempIds :
          (SaveInventoryItemStatus(t) = 500 /\ SaveInventoryItem(t))
          => UNCHANGED <<permImages, tempImages, catalog>>]_vars

\* what a successful save of temp_id t adds: exactly one row, carrying the
\* payload's id, category, type and color, with the staged image bytes as its
\* permanent image; rgb is the rgb the row's color must carry
PromotedExactly(t, rgb) ==
    LET inv == staging[t].inventory
    IN \E row \in catalog' \ catalog :
          /\ catalog' = catalog \cup {row}
          /\ row.id = inv.id
          /\ row.category = inv.category
          /\ row.type = inv.type
          /\ {"name", "group"} \subseteq DOMAIN inv.color
          /\ row.color_name = inv.color.name
          /\ row.color_group = inv.color.group
          /\ row.color_rgb = rgb
          /\ row.id \in DOMAIN permImages'
          /\ permImages'[row.id] = b64decode(staging[t].image.data)

C6_ResolvedOnce ==
    \A t \in resolved :
        /\ SaveInventoryItemStatus(t) = 404
        /\ ConfirmTemporaryStatus(t) = 404
        /\ DeleteTemporaryStatus(t) = 404
        /\ \A body \in EditBodies :
              DOMAIN ParseInventoryUpdate(body) # {}
              => UpdateTemporaryStatus(t, body) = 404

\* C7: after a successful discard neither the staged record nor its temp image
\* file exists.
C7_DiscardRemovesImage ==
    [][\A t \in TempIds :
          (DeleteTemporaryStatus(t) = 200 /\ DeleteTemporary(t))
          => /\ t \notin DOMAIN staging'
             /\ t \notin DOMAIN tempImages']_vars

\* C8: in every state, also between the steps of a save or a delete, every
\* catalog row has its image file images/permanent/{id}.png.
C8_RowHasImage ==
    \A row \in catalog :
        /\ row.image_path = PermanentPath(row.id)
        /\ row.id \in DOMAIN permImages

C11_StagedHasNoId ==
    \A t \in DOMAIN staging : "id" \notin DOMAIN staging[t].inventory

\* the integer suffixes of the ids of existing_items that start with
\* {category}_{type}_
IntSuffixes(category, item_type, existing_items) ==
    LET prefix == category \o US \o item_type \o US
    IN {IntOf(LastPart(existing_items[k].id)) :
          k \in {j \in 1..Len(existing_items) :
                   /\ "id" \in DOMAIN existing_items[j]
                   /\ startswith(existing_items[j].id, prefix)
                   /\ IsInt(LastPart(existing_items[j].id))}}

\* id is {category}_{type}_ followed by N, zero-padded to two digits or more
IsNumbered(id, category, item_type, N) ==
    LET prefix == category \o US \o item_type \o US
        suffix == SubSeq(id, Len(prefix) + 1, Len(id))
    IN /\ startswith(id, prefix)
       /\ Len(suffix) >= 2
       /\ \A k \in 1..Len(suffix) : suffix[k] \in DigitSet
       /\ Len(suffix) > 2 => suffix[1] # "0"
       /\ NatOf(suffix) = N

\* C12 as stated: generate_smart_id returns {category}_{type}_N, N being 1 plus
\* the largest integer suffix of the existing ids of the prefix, 1 when there
\* is none; suffixes that are no integers are ignored.
C12_NextAfterLargest ==
    call.fn = "generate_smart_id"
    => LET S == IntSuffixes(call.args[1], call.args[2], call.args[3])
       IN IsNumbered(call.ret, call.args[1], call.args[2],
                     IF S = {} THEN 1 ELSE MaxOf(S) + 1)

\* C12 amended: as C12, the largest suffix counting as 0 when it is negative.
C12_NextAfterLargestOrZero ==
    call.fn = "generate_smart_id"
    => LET S == IntSuffixes(call.args[1], call.args[2], call.args[3])
       IN IsNumbered(call.ret, call.args[1], call.args[2], MaxOf(S \cup {0}) + 1)

\* the allocator returned topwear_shirt_04 for a list holding topwear_shirt_03
\* and the malformed topwear_shirt_abc
C12_Witness ==
    /\ call.fn = "generate_smart_id"
    /\ call.ret = <<"topwear", "_", "shirt", "_", "0", "4">>
    /\ \E k \in 1..Len(call.args[3]) :
          call.args[3][k] = [id |-> <<"topwear", "_", "shirt", "_", "abc">>]

\* the highest score of a score vector
TopScore(probs) == MaxOf({probs[i] : i \in DOMAIN probs})

\* the second highest score: the highest of the other labels
SecondScore(probs) ==
    LET top == CHOOSE i \in DOMAIN probs : probs[i] = TopScore(probs)
    IN MaxOf({probs[i] : i \in DOMAIN probs \ {top}})

IsMultiGarmentError(ret) ==
    /\ ~ret.ok
    /\ ret.message.text = "Multi-garment image detected."

IsMultiGarmentRun(run) ==
    /\ run.upload = "ok"
    /\ run.pre.ok
    /\ run.pre.png # <<>>
    /\ IsMultiGarmentError(classify_type(run.scorer))

\* the kind of an error answer, as the caller gets it: the status code of the
\* HTTPException (its detail is free text)
ErrorKind(response) == response.status_code

\* C14: a multi-garment rejection reaches the caller with both labels and both
\* scores, and with a kind that no other failure of the intake has.
C14_MultiGarmentKindDistinct ==
    call.fn = "extract_cloth_api"
    => LET run == call.args[1]
       IN /\ IsMultiGarmentRun(run)
             => LET probs == run.scorer.probs
                    ranked == SortedByScore(probs, DOMAIN probs)
                IN /\ call.ret.status_code # 200
                   /\ {"Top", "Second"} \subseteq DOMAIN call.ret.detail
                   /\ call.ret.detail.Top =
                         [label |-> LABELS[ranked[1]], score |-> probs[ranked[1]]]
                   /\ call.ret.detail.Second =
                         [label |-> LABELS[ranked[2]], score |-> probs[ranked[2]]]
          /\ (~IsMultiGarmentRun(run) /\ call.ret.status_code # 200)
             => \A other \in IntakeRuns :
                   IsMultiGarmentRun(other)
                   => ErrorKind(call.ret) #
                      ErrorKind(extract_cloth_response(other.upload, other.pre,
                                    other.scorer, other.generator, other.store))

\* C15: a delete of a staged record or of a catalog record that is not there
\* (never was, or was deleted before) answers not-found and leaves the
\* Staging Store, the Catalog Store and both image directories as they were.
C15_DeleteAbsentChangesNothing ==
    [][/\ \A t \in TempIds :
             (t \notin DOMAIN staging /\ DeleteTemporary(t))
             => /\ DeleteTemporaryStatus(t) = 404
                /\ UNCHANGED <<stores, resolved>>
       /\ \A i \in ItemIds :
             (i \notin CatalogIds /\ DeleteInventoryItem(i))
             => /\ DeleteInventoryItemStatus(i) = 404
                /\ UNCHANGED <<stores, resolved>>]_vars

\* one record was discarded, another was saved and then deleted from the
\* catalog: a second delete of either is not-found
C15_Witness ==
    /\ \E t \in resolved \ DOMAIN staging : DeleteTemporaryStatus(t) = 404
    /\ \E t \in resolved \cap DOMAIN staging :
          /\ staging[t].inventory.id \in ItemIds \ CatalogIds
          /\ DeleteInventoryItemStatus(staging[t].inventory.id) = 404

\* the staged record of writer w that the requests that have returned call for
ExpectedRecord(w) ==
    IF writers[w].phase = "staged" THEN StagedRecordOf(w)
    ELSE [StagedRecordOf(w) EXCEPT !.inventory = DictUpdate(@, WriterEdit)]

\* C16: no Staging Store update is lost: when the requests on distinct temp_ids
\* have returned, however their loads and writes were interleaved, the store
\* holds the effect of each of them.
C16_NoLostUpdate ==
    (\A w \in Writers : writers[w].pc = "idle")
    => \A w \in Writers :
          /\ writers[w].phase \in {"staged", "edited"}
             => /\ w \in DOMAIN LoadFile(file)
                /\ LoadFile(file)[w] = ExpectedRecord(w)
          /\ writers[w].phase \in {"new", "gone"} => w \notin DOMAIN LoadFile(file)

\* C17: a write of the staging store that fails leaves the complete previous
\* contents or the complete new contents: the next load returns the store as
\* the failed request loaded it, or as it meant to write it.
C17_FailedWriteKeepsRecords ==
    [][\A w \in Writers, n \in 0..(MaxWriters + 1) :
          FailDump(w, n)
          => LoadFile(file') \in {writers[w].loaded, writers[w].data}]_vars

\* the three channels are equal within less than 20
NearEqual(rgb) ==
    /\ Abs(rgb[1] - rgb[2]) < 20
    /\ Abs(rgb[2] - rgb[3]) < 20
    /\ Abs(rgb[1] - rgb[3]) < 20

DominanceGroup(rgb) ==
    LET r == rgb[1]
        g == rgb[2]
        b == rgb[3]
    IN IF r > g + 25 /\ r > b + 25 THEN "red"
       ELSE IF g > r + 25 /\ g > b + 25 THEN "green"
       ELSE IF b > r + 25 /\ b > g + 25 THEN "blue"
       ELSE "neutral"

\* the channel-dominance rules of the name mapper: blue first
DominanceName(rgb) ==
    LET r == rgb[1]
        g == rgb[2]
        b == rgb[3]
    IN IF b > r + 25 THEN "blue"
       ELSE IF r > g + 25 THEN "red"
       ELSE IF g > r + 25 THEN "green"
       ELSE "neutral"

\* the result is one of the luminance branch for near, of the dominance rules
\* otherwise
BranchBy(near, rgb, ret) ==
    IF near
    THEN /\ ret.group \in {"white", "black", "neutral"}
         /\ ret.name \in {"off white", "black", "beige"}
    ELSE /\ ret.group = DominanceGroup(rgb)
         /\ ret.name = DominanceName(rgb)

\* C19 as stated: the mappers take the luminance branch exactly for the
\* triples whose three pairwise differences are all below 20, and classify
\* every other triple by the dominance rules.
C19_LuminanceIffAllPairs ==
    call.fn = "map_color"
    => BranchBy(NearEqual(call.args[1]), call.args[1], call.ret)

\* C19 amended: the luminance branch is taken exactly for the triples with
\* |r-g| < 20 and |g-b| < 20; |r-b| is not tested.
C19_LuminanceIffAdjacentPairs ==
    call.fn = "map_color"
    => BranchBy(/\ Abs(call.args[1][1] - call.args[1][2]) < 20
                /\ Abs(call.args[1][2] - call.args[1][3]) < 20,
                call.args[1], call.ret)

\* (100, 119, 138) was mapped by the luminance branch, with red and blue 38
\* apart
C19_Witness ==
    /\ call.fn = "map_color"
    /\ call.args[1] = <<100, 119, 138>>
    /\ call.ret = [group |-> "neutral", name |-> "beige"]

\* the positions of the pixels with alpha above 0
Foreground(image) == {i \in 1..Len(image) : image[i][4] > 0}

\* the total of channel c over the pixels at the positions S
RECURSIVE ChannelTotal(_, _, _)
ChannelTotal(image, S, c) ==
    IF S = {} THEN 0
    ELSE LET i == CHOOSE x \in S : TRUE
         IN image[i][c] + ChannelTotal(image, S \ {i}, c)

\* C20: extract_dominant_rgb returns (128,128,128) when no pixel has alpha
\* above 0, and otherwise, for each channel, the arithmetic mean over exactly
\* the pixels with alpha above 0, truncated to an integer.
C20_MeanOfForeground ==
    call.fn = "extract_dominant_rgb"
    => LET image == call.args[1]
           fg == Foreground(image)
           n == Cardinality(fg)
       IN IF fg = {} THEN call.ret = <<128, 128, 128>>
          ELSE /\ DOMAIN call.ret = 1..3
               /\ \A c \in 1..3 :
                     /\ call.ret[c] * n <= ChannelTotal(image, fg, c)
                     /\ ChannelTotal(image, fg, c) < (call.ret[c] + 1) * n

\* two opaque pixels around a transparent one gave the truncated mean of the
\* two
C20_Witness ==
    /\ call.fn = "extract_dominant_rgb"
    /\ call.args[1] = << <<200, 20, 20, 255>>, <<0, 0, 0, 0>>, <<221, 31, 41, 255>> >>
    /\ call.ret = <<210, 25, 30>>

\* C21: the temp id an intake is staged under is none of the staged ones and
\* none issued before, so that every staged record stays as it was; and no
\* catalog row has the text of a temp id as its id.
C21_TempIdNeverReused ==
    [][\A req \in BagToSet(intake), t \in TempIds :
          StageIntakeDrawn(req, t)
          => /\ t \notin DOMAIN staging \cup resolved
             /\ \A k \in DOMAIN staging : staging'[k] = staging[k]
             /\ \A row \in catalog', k \in TempIds : row.id # TempIdText(k)]_vars

\* C22: an intake refused at its first stage (upload or preprocessing) or at
\* its second (classification, multi-garment) issues no temp id, is gone from
\* the requests in progress, and leaves wardrobe.json, the staging store, both
\* image directories and the catalog as they were.
C22_RejectedIntakeChangesNothing ==
    [][/\ \A out \in ExtractOutcomes :
             (out.status # 0 /\ ExtractCloth(out))
             => (UNCHANGED <<stores, issued>> /\ intake' = intake)
       /\ \A req \in BagToSet(intake), out \in ClassifyOutcomes :
             (out.status # 0 /\ GenerateInventory(req, out))
             => /\ UNCHANGED <<stores, issued>>
                /\ intake' = intake (-) SetToBag({req})]_vars

\* of two intakes one was staged and the other refused
C22_Witness ==
    /\ started = 2
    /\ intake = EmptyBag
    /\ issued = 1
    /\ DOMAIN staging = {1}
    /\ DOMAIN tempImages = {1}

\* C23: between requests, images/temp/{temp_id}.png exists if and only if the
\* staging store has a record under temp_id.
C23_TempImageIffStaged == DOMAIN tempImages = DOMAIN staging

\* C24: an update of a staged record overwrites exactly the inventory fields
\* handed to update_temporary_item; the other inventory fields, the temp_id,
\* image, created_at and status of the record, every other staged record and
\* the temp images stay as they were; for a temp id that is not staged (or a
\* body without fields) nothing is written.
C24_UpdateOverwritesSupplied ==
    [][\A t \in TempIds, body \in EditBodies :
          UpdateTemporary(t, body)
          => LET supplied == ParseInventoryUpdate(body)
             IN IF t \in DOMAIN staging /\ DOMAIN supplied # {}
                THEN /\ DOMAIN staging' = DOMAIN staging
                     /\ \A k \in DOMAIN staging \ {t} : staging'[k] = staging[k]
                     /\ DOMAIN staging'[t] = DOMAIN staging[t]
                     /\ \A f \in {"temp_id", "image", "created_at", "status"} :
                           staging'[t][f] = staging[t][f]
                     /\ DOMAIN staging'[t].inventory =
                           DOMAIN staging[t].inventory \cup DOMAIN supplied
                     /\ \A f \in DOMAIN supplied :
                           staging'[t].inventory[f] = supplied[f]
                     /\ \A f \in DOMAIN staging[t].inventory \ DOMAIN supplied :
                           staging'[t].inventory[f] = staging[t].inventory[f]
                     /\ UNCHANGED tempImages
                ELSE UNCHANGED <<staging, tempImages>>]_vars

\* of two staged shirts the first was edited into pants, the second was not
C24_Witness ==
    /\ DOMAIN staging = {1, 2}
    /\ staging[1].inventory.type = <<"pants">>
    /\ staging[1].inventory.category = <<"topwear">>
    /\ staging[1].status = "pending"
    /\ staging[2].inventory.type = <<"shirt">>

\* the fields of a body that are fields of the request model and whitelisted
\* (the bodies carry no null)
SuppliedWhitelisted(body) ==
    [k \in {x \in DOMAIN body : x \in InventoryUpdateRequestFields \cap allowed_fields} |->
        body[k]]

\* a step of PUT /api/inventory/{item_id} gives the row of item_id the supplied
\* fields and keeps its other fields, those in exempt aside; the other rows and
\* the other stores stay; without a row of item_id nothing changes
UpdateChangesSupplied(exempt) ==
    \A i \in ItemIds, body \in UpdateBodies :
        UpdateInventoryItem(i, body)
        => LET found == {row \in catalog : row.id = i}
               supplied == SuppliedWhitelisted(body)
           IN /\ UNCHANGED <<wardrobe, staging, tempImages, permImages>>
              /\ IF found = {} THEN catalog' = catalog
                 ELSE \E item \in found, new \in catalog' :
                         /\ catalog' \ {new} = catalog \ found
                         /\ DOMAIN new = DOMAIN item
                         /\ \A f \in DOMAIN supplied : new[f] = supplied[f]
                         /\ \A f \in DOMAIN item \ (DOMAIN supplied \cup exempt) :
                               new[f] = item[f]

\* C25 as stated: an update of a catalog record changes exactly the supplied,
\* non-null, whitelisted fields of that record and leaves every other field
\* of it and every other record unchanged; for an unknown id nothing changes.
C25_UpdateChangesOnlySupplied == [][UpdateChangesSupplied({})]_vars

\* C25 amended: as C25, except that updated_at of the record is set anew.
C25_UpdateChangesSuppliedAndUpdatedAt == [][UpdateChangesSupplied({"updated_at"})]_vars

\* a saved shirt was updated with a category and a color name: its color
\* group, rgb, type, id and image path are the stored ones, updated_at is new
C25_Witness ==
    \E row \in catalog :
        /\ row.category = <<"bottomwear">>
        /\ row.color_name = "navy"
        /\ row.color_group = "red"
        /\ row.type = <<"shirt">>
        /\ row.image_path = PermanentPath(row.id)
        /\ row.created_at = 0
        /\ row.updated_at = 2

\* segmentation and encoding applied to the image as it was uploaded
SegmentUncropped(upload, segmenter) ==
    IF ~upload.ok \/ segmenter = "raises" THEN [ok |-> FALSE, error |-> "ValueError"]
    ELSE [ok |-> TRUE, png |-> EncodePng(remove(upload.image))]

\* C26: when face localization finds no face or raises, extract_cloth ends as
\* segmentation and encoding of the uncropped image end: with their PNG, and
\* with a failure only where they fail.
C26_FaceFailureIsNotFatal ==
    (call.fn = "extract_cloth" /\ call.args[2].kind \in {"none", "raises"})
    => call.ret = SegmentUncropped(call.args[1], call.args[3])

\* the face step raised on the portrait and the PNG has all four rows
C26_Witness ==
    /\ call.fn = "extract_cloth"
    /\ call.args[2].kind = "raises"
    /\ call.ret.ok
    /\ Len(call.ret.png.rows) = 4
    /\ call.ret.png.rows[1] = <<"cut", "face">>

\* C27: every /extract-cloth request that has arrived is eventually staged or
\* refused, however many requests share the two worker threads.
C27_EveryIntakeEnds ==
    \A r \in Requests :
        (handlers[r].pc # "idle") ~> (handlers[r].pc \in {"staged", "rejected"})

\* both worker threads are busy with the first stages of two requests while
\* the second stage of a third waits in the queue
C27_Witness ==
    /\ \A w \in Workers : executor.workers[w].fn = "extract_cloth"
    /\ \E i \in 1..Len(executor.work_queue) :
          /\ executor.work_queue[i].fn = "generate_inventory_item"
          /\ handlers[executor.work_queue[i].req].pc = "await_generate"

\* C28: the id generate_smart_id returns is the id of no item of the list it
\* was given.
C28_IdNotInList ==
    call.fn = "generate_smart_id"
    => \A k \in 1..Len(call.args[3]) : Get(call.args[3][k], "id", <<>>) # call.ret

\* for a list with the unpadded 1 and the over-padded 002 the id is number 03
C28_Witness ==
    /\ call.fn = "generate_smart_id"
    /\ call.args[3] = <<[id |-> <<"topwear", "_", "shirt", "_", "1">>],
                        [id |-> <<"topwear", "_", "shirt", "_", "0", "0", "2">>]>>
    /\ call.ret = <<"topwear", "_", "shirt", "_", "0", "3">>

\* C29 as stated: for every triple the group mapper calls red, green or blue,
\* the name mapper returns the same word.
C29_NameAgreesWithGroup ==
    (call.fn = "map_color" /\ call.ret.group \in {"red", "green", "blue"})
    => call.ret.name = call.ret.group

\* C29 amended: for a triple the group mapper calls red or blue the name mapper
\* returns the same word; for one it calls green the name mapper returns
\* green, unless blue is more than 25 above red, and then it returns blue.
C29_NameAgreesButBlueFirst ==
    (call.fn = "map_color" /\ call.ret.group \in {"red", "green", "blue"})
    => call.ret.name =
          IF call.ret.group = "green" /\ call.args[1][3] > call.args[1][1] + 25
          THEN "blue" ELSE call.ret.group

\* (0, 119, 79) is of the group green and has the name blue
C29_Witness ==
    /\ call.fn = "map_color"
    /\ call.args[1] = <<0, 119, 79>>
    /\ call.ret = [group |-> "green", name |-> "blue"]

\* the largest number among the ids of a list of confirmed shirts (0 for none)
HighestConfirmed(items) ==
    MaxOf({IntOf(LastPart(items[i].id)) : i \in 1..Len(items)} \cup {0})

\* C30: an allocation made while a confirmation rewrites wardrobe.json loads
\* the complete list from before the confirmation or the complete list after
\* it, and its number is not lower than the highest one confirmed before.
C30_AllocationSeesCompleteList ==
    [][\A w \in Workers :
         (AllocateId(w) /\ threads.dispatcher.pc # "idle")
         => /\ threads'.worker[w].existing_items \in
                  {threads.dispatcher.loaded, threads.dispatcher.data}
            /\ IntOf(LastPart(threads'.worker[w].id)) >=
                  HighestConfirmed(threads.dispatcher.loaded)]_vars

====
